---- MODULE Spec2Model ----
(***************************************************************************)
(* A model of rust_wc (src/main.rs): the per-source scan count_file, the   *)
(* aggregator Counts::merge_with, the locked report writer Counts::print   *)
(* and the orchestration in main (sequential stdin runs, fork-join file    *)
(* runs on a worker pool).                                                 *)
(*                                                                         *)
(* Text is a sequence of tokens, one per Unicode scalar value:             *)
(*   "a"   a letter                    (1 byte, not white space)           *)
(*   "SP"  a space                     (1 byte, white space)               *)
(*   "LF" "CR" "FF"  the LINE_CHARS    (1 byte each, white space)          *)
(*   "cm"  U+0301, a combining mark    (2 bytes, extends a grapheme)       *)
(*   "BAD" a byte that is not UTF-8, or a read that fails                  *)
(*   "EOF" (standard input only) a read that returns 0 bytes, as a         *)
(*         terminal does at each end-of-file key; past its end every       *)
(*         stream returns 0 bytes for ever.                                *)
(*   "NUL" the byte 0 that ends a name of a --files0-from manifest         *)
(* A manifest holds names letter by letter: "a", "b", "c", "p", "x", "-".  *)
(***************************************************************************)
EXTENDS Integers, Sequences, FiniteSets, TLC

\* ------------------------------------------------------------- bounds
\* Longest source list given on the command line.
MaxFiles == 3
\* Longest content the scan specification explores, with chosen flag sets.
MaxLen == 3
\* Longest content the scan specification explores with every flag set.
MaxLenAllFlags == 1
\* Longest source list given beside a manifest.
MaxDirect == 1
\* Longest manifest the manifest specification explores.
MaxManifest == 5
\* Threads of the rayon pool.
NumWorkers == 2
\* Width of usize in the model (64 on the real targets): wide enough that
\* only the subtraction of count_file can leave the range.
UsizeBits == 12

UsizeMod == 2 ^ UsizeBits

\* ------------------------------------------------------------- text
LINE_CHARS == {"LF", "CR", "FF"}

WhiteSpace == {"SP", "LF", "CR", "FF"}

ByteLen(tok) == IF tok = "cm" THEN 2 ELSE 1

RECURSIVE as_bytes_len(_)
as_bytes_len(s) == IF s = <<>> THEN 0 ELSE ByteLen(Head(s)) + as_bytes_len(Tail(s))

\* str::chars().count()
chars_count(s) == Len(s)

\* UnicodeSegmentation::graphemes(true).count(): CR LF is one cluster, a
\* combining mark joins the scalar before it unless that is a control.
graphemes_count(s) ==
    Len(s) - Cardinality({i \in 2..Len(s) :
                            \/ s[i] = "LF" /\ s[i-1] = "CR"
                            \/ s[i] = "cm" /\ s[i-1] \notin LINE_CHARS})

\* Mutant: a line with a word counts as one word.
split_whitespace_any(s) == IF \E i \in 1..Len(s) : s[i] \notin {"SP", "LF", "CR", "FF"} THEN 1 ELSE 0

\* str::split_whitespace().count(): the starts of the maximal runs of
\* scalars that are not white space.
split_whitespace_count(s) ==
    Cardinality({i \in 1..Len(s) :
                   /\ s[i] \notin WhiteSpace
                   /\ (i = 1 \/ s[i-1] \in WhiteSpace)})

ends_with(s, set) == s # <<>> /\ s[Len(s)] \in set

RECURSIVE trim_end_matches(_, _)
trim_end_matches(s, set) ==
    IF ends_with(s, set) THEN trim_end_matches(SubSeq(s, 1, Len(s) - 1), set) ELSE s

RECURSIVE trim_start_matches(_, _)
trim_start_matches(s, set) ==
    IF s # <<>> /\ Head(s) \in set THEN trim_start_matches(Tail(s), set) ELSE s

\* str::trim_matches: the pattern is taken off both ends.
trim_matches(s, set) == trim_start_matches(trim_end_matches(s, set), set)

\* str::from_utf8 succeeds.
from_utf8_ok(buf) == \A i \in 1..Len(buf) : buf[i] # "BAD"

\* str::to_owned: the String of the scalars of s.
RECURSIVE to_owned(_)
to_owned(s) == IF s = <<>> THEN "" ELSE Head(s) \o to_owned(Tail(s))

\* str::trim on a source name: the names of the model that trim to "-".
trim(name) == IF name \in {"-", " -"} THEN "-" ELSE name

\* ------------------------------------------------------------- Counts
Counts == [words : Nat, lines : Nat, bytes : Nat, chars : Nat, max_line_len : Nat]

CountsDefault == [words |-> 0, lines |-> 0, bytes |-> 0, chars |-> 0, max_line_len |-> 0]

Max(a, b) == IF a >= b THEN a ELSE b

\* Mutant: the maximum line length is overwritten, not maximised.
MergeWithLastMax(self, other) ==
    [words        |-> self.words + other.words,
     lines        |-> self.lines + other.lines,
     bytes        |-> self.bytes + other.bytes,
     chars        |-> self.chars + other.chars,
     max_line_len |-> other.max_line_len]

\* Mutant: the maximum line length is summed like the other fields.
MergeWithSummedMax(self, other) ==
    [words        |-> self.words + other.words,
     lines        |-> self.lines + other.lines,
     bytes        |-> self.bytes + other.bytes,
     chars        |-> self.chars + other.chars,
     max_line_len |-> self.max_line_len + other.max_line_len]

MergeWith(self, other) ==
    [words        |-> self.words + other.words,
     lines        |-> self.lines + other.lines,
     bytes        |-> self.bytes + other.bytes,
     chars        |-> self.chars + other.chars,
     max_line_len |-> Max(self.max_line_len, other.max_line_len)]

\* ------------------------------------------------------------- Args
Flags == {"count_bytes", "count_chars", "count_words", "count_lines",
          "max_line_length", "utf_chars"}

needs_read(a) == a.count_chars \/ a.count_words \/ a.count_lines \/ a.max_line_length

\* main, lines 199-204
ResolveDefaults(a) ==
    IF ~a.count_bytes /\ ~a.count_chars /\ ~a.count_words /\ ~a.count_lines
    THEN [a EXCEPT !.count_bytes = TRUE, !.count_chars = FALSE,
                   !.count_words = TRUE, !.count_lines = TRUE]
    ELSE a

\* The fields Counts::print writes, in its order.
PrintOrder == <<"lines", "words", "chars", "bytes", "max_line_len">>

FieldFlag(f) == CASE f = "lines" -> "count_lines"
                  [] f = "words" -> "count_words"
                  [] f = "chars" -> "count_chars"
                  [] f = "bytes" -> "count_bytes"
                  [] f = "max_line_len" -> "max_line_length"

PrintedFields(a) == SelectSeq(PrintOrder, LAMBDA f : a[FieldFlag(f)])

\* ------------------------------------------------------------- read_line
\* The place where the line that starts at token p ends: the first line feed
\* or zero-byte read at or after p, or the end of the data.
RECURSIVE LineEnd(_, _)
LineEnd(data, p) ==
    IF p >= Len(data) THEN Len(data)
    ELSE IF data[p] \in {"LF", "EOF"} THEN p
    ELSE LineEnd(data, p + 1)

\* BufRead::read_line from position pos (tokens consumed so far): the line
\* appended to the buffer, the new position, and whether the call fails.
\* A result with an empty line and no error is Ok(0).
read_line(data, pos) ==
    IF pos >= Len(data)
    THEN [line |-> <<>>, pos |-> pos, err |-> FALSE]
    ELSE LET e    == LineEnd(data, pos + 1)
             last == IF data[e] = "EOF" THEN e - 1 ELSE e
             ln   == SubSeq(data, pos + 1, last)
         IN  [line |-> ln, pos |-> e, err |-> \E i \in 1..Len(ln) : ln[i] = "BAD"]

\* The place where the chunk that starts at token p ends: the first NUL or
\* zero-byte read at or after p, or the end of the data.
RECURSIVE ChunkEnd(_, _)
ChunkEnd(data, p) ==
    IF p >= Len(data) THEN Len(data)
    ELSE IF data[p] \in {"NUL", "EOF"} THEN p
    ELSE ChunkEnd(data, p + 1)

\* BufRead::read_until(b'\0') from position pos: the bytes appended to the
\* buffer, the delimiter included, and the new position.  An empty buffer
\* is Ok(0).
read_until(data, pos) ==
    IF pos >= Len(data)
    THEN [buf |-> <<>>, pos |-> pos]
    ELSE LET e    == ChunkEnd(data, pos + 1)
             last == IF data[e] = "EOF" THEN e - 1 ELSE e
         IN  [buf |-> SubSeq(data, pos + 1, last), pos |-> e]

\* ------------------------------------------------------------- count_file
\* The textual units of a line, lines 142-145.
UnitCount(a, line) == IF a.utf_chars THEN graphemes_count(line) ELSE chars_count(line)

\* Mutant: only the last terminator is trimmed.
TrimDiffOne(line) == as_bytes_len(line) - as_bytes_len(SubSeq(line, 1, Len(line) - 1))

\* The bytes the trailing LINE_CHARS take, line 152.
TrimDiff(line) == as_bytes_len(line) - as_bytes_len(trim_end_matches(line, LINE_CHARS))

\* The guard of line 141.
Measures(a) == a.count_chars \/ a.max_line_length

\* Whether the line reaches the subtraction of line 153 at all.
Subtracts(a, line) == Measures(a) /\ ends_with(line, LINE_CHARS)

\* count - diff leaves usize: a panic where overflow is checked, a wrapped
\* value where it is not.
Underflows(a, line) == Subtracts(a, line) /\ TrimDiff(line) > UnitCount(a, line)

\* line_len of lines 148-156, in wrapping usize arithmetic.
LineLen(a, line) ==
    IF ends_with(line, LINE_CHARS)
    THEN (UnitCount(a, line) - TrimDiff(line)) % UsizeMod
    ELSE UnitCount(a, line)

\* Mutant: the bytes of a line are added for a named file too.
CountLineAlwaysBytes(a, c, line, is_file) ==
    [lines |-> c.lines + 1,
     bytes |-> IF a.count_bytes THEN c.bytes + as_bytes_len(line) ELSE c.bytes,
     words |-> IF a.count_words THEN c.words + split_whitespace_count(line) ELSE c.words,
     chars |-> IF Measures(a)
               THEN c.chars + UnitCount(a, line) ELSE c.chars,
     max_line_len |-> IF Measures(a)
                      THEN Max(c.max_line_len, LineLen(a, line)) ELSE c.max_line_len]

\* Mutant: only a line that ends in a line feed is counted.
CountLineNewlines(a, c, line, is_file) ==
    [lines |-> IF ends_with(line, {"LF"}) THEN c.lines + 1 ELSE c.lines,
     bytes |-> IF ~is_file /\ a.count_bytes THEN c.bytes + as_bytes_len(line) ELSE c.bytes,
     words |-> IF a.count_words THEN c.words + split_whitespace_count(line) ELSE c.words,
     chars |-> IF Measures(a)
               THEN c.chars + UnitCount(a, line) ELSE c.chars,
     max_line_len |-> IF Measures(a)
                      THEN Max(c.max_line_len, LineLen(a, line)) ELSE c.max_line_len]

\* One turn of the loop of lines 128-162 on a line that was read.
CountLine(a, c, line, is_file) ==
    [lines |-> c.lines + 1,
     bytes |-> IF ~is_file /\ a.count_bytes THEN c.bytes + as_bytes_len(line) ELSE c.bytes,
     words |-> IF a.count_words THEN c.words + split_whitespace_count(line) ELSE c.words,
     chars |-> IF Measures(a)
               THEN c.chars + UnitCount(a, line) ELSE c.chars,
     max_line_len |-> IF Measures(a)
                      THEN Max(c.max_line_len, LineLen(a, line)) ELSE c.max_line_len]

\* ------------------------------------------------------------- state
VARIABLES
    cli,          \* the command line as parsed by Args::from_args
    args,         \* main's args
    file_f,       \* the file named "f": [exists, meta, data]
    stdinData,    \* what standard input delivers
    stdinPos,     \* tokens of standard input consumed so far
    pc,           \* thread -> position; thread 0 is main, the others the pool
    th,           \* thread -> locals of the scan and report it is running
    lo, hi,       \* the group of the source list main's loop is at
    todo,         \* sources of the current file group no worker has begun
    acc,          \* worker -> accumulator of its fold
    reduced,      \* workers whose accumulator the reduce has consumed
    file_counts,  \* result of the reduce so far
    counts,       \* main's grand total
    out,          \* the writes made to standard output, in order
    err,          \* the messages written to standard error, in order
    lock,         \* threads holding the lock of standard output
    result,       \* source -> what its scan returned: [st, c], st "none", "ok" or "err"
    seg,          \* the stretch of standard input each stdin scan consumed
    m             \* operands and results of merge_with applied on its own

vars == <<cli, args, file_f, stdinData, stdinPos, pc, th, lo, hi, todo, acc, reduced,
          file_counts, counts, out, err, lock, result, seg, m>>

File(data) == [exists |-> TRUE, meta |-> TRUE, data |-> data]

NoFile == [exists |-> FALSE, meta |-> FALSE, data |-> <<>>]

\* A file whose metadata cannot be read once it is open.
NoMetaFile == [exists |-> TRUE, meta |-> FALSE, data |-> <<"a">>]

\* The files of the orchestration runs: one that scans, one whose second
\* line fails to decode, one that does not exist; and the manifests: one
\* that names p and standard input, an empty one, one whose second name
\* does not decode, one that names f.
FixedFiles ==
    [n \in {"a", "p", "x", "m", "e", "n", "g"} |->
        CASE n = "a" -> File(<<"CR", "LF", "a", "a">>)
          [] n = "p" -> File(<<"a", "LF", "BAD">>)
          [] n = "x" -> NoFile
          [] n = "m" -> File(<<"p", "NUL", "-", "NUL">>)
          [] n = "e" -> File(<<>>)
          [] n = "n" -> File(<<"a", "NUL", "BAD", "NUL">>)
          [] n = "g" -> File(<<"f", "NUL">>)]

\* The file system: the file a name opens; no other file exists.
Fs(name) == IF name = "f" THEN file_f
            ELSE IF name \in DOMAIN FixedFiles THEN FixedFiles[name]
            ELSE NoFile

Workers == 1..NumWorkers

Threads == 0..NumWorkers

NoResult == [st |-> "none", c |-> CountsDefault]

\* src: the source scanned or reported (0: the total); pos: the place in the
\* file; c: counts; k: fields written by print; line, count, line_len: the
\* locals line_buf, count and line_len of count_file after its last line.
Locals0 == [src |-> 0, pos |-> 0, c |-> CountsDefault, k |-> 0, line |-> <<>>,
            count |-> 0, line_len |-> 0]

IsStdin(f) == trim(f) = "-"

\* Mutant: every source is a group of its own.
GroupEndOne(files, i) == i

\* The last source of the group that starts at source i (Itertools::group_by).
RECURSIVE GroupEnd(_, _)
GroupEnd(files, i) ==
    IF i < Len(files) /\ IsStdin(files[i + 1]) = IsStdin(files[i])
    THEN GroupEnd(files, i + 1) ELSE i

\* The name Counts::print is given.
Label(t) == IF th[t].src = 0 THEN "total"
            ELSE IF t = 0 THEN "-" ELSE args.files[th[t].src]

\* ------------------------------------------------------------- main
\* main, lines 197-204: the defaults of the count selection.
ResolveMode ==
    /\ pc[0] = "start"
    /\ args' = ResolveDefaults(args)
    /\ pc' = [pc EXCEPT ![0] = "files_from"]
    /\ UNCHANGED <<m, cli, file_f, stdinData, stdinPos, th, lo, hi, todo, acc, reduced,
                   file_counts, counts, out, err, lock, result, seg>>

\* The manifest is read from standard input, line 184.
FromStdin == args.files_from # <<>> /\ trim(args.files_from[1]) = "-"

\* files_from, lines 183-191 (called at line 206): with no manifest nothing
\* is done; else the manifest is standard input or a file to open.
FilesFromOpen ==
    /\ pc[0] = "files_from"
    /\ IF args.files_from = <<>>
       THEN /\ pc' = [pc EXCEPT ![0] = "default"]
            /\ UNCHANGED seg
       ELSE IF FromStdin
       THEN /\ pc' = [pc EXCEPT ![0] = "from_read"]
            /\ seg' = Append(seg, [src |-> 0, from |-> stdinPos, to |-> stdinPos])
       ELSE /\ pc' = [pc EXCEPT ![0] = IF Fs(args.files_from[1]).exists
                                       THEN "from_read" ELSE "from_failed"]
            /\ UNCHANGED seg
    /\ UNCHANGED <<m, cli, args, file_f, stdinData, stdinPos, th, lo, hi, todo, acc, reduced,
                   file_counts, counts, out, err, lock, result>>

\* Mutant: the names of the manifest are put before the sources.
PushNameFirst(files, buf) == <<to_owned(trim_matches(buf, {"NUL"}))>> \o files

\* read_func, line 175: the name of the chunk joins the source list.
PushName(files, buf) == Append(files, to_owned(trim_matches(buf, {"NUL"})))

\* read_func, lines 173-180: one read_until and the turn of the loop it
\* leads to; Ok(0) ends files_from, a chunk that is not UTF-8 fails it.
FilesFromRead ==
    /\ pc[0] = "from_read"
    /\ LET data == IF FromStdin THEN stdinData ELSE Fs(args.files_from[1]).data
           pos  == IF FromStdin THEN stdinPos ELSE th[0].pos
           r    == read_until(data, pos)
       IN  /\ IF FromStdin
              THEN /\ stdinPos' = r.pos
                   /\ seg' = [seg EXCEPT ![Len(seg)].to = r.pos]
              ELSE UNCHANGED <<stdinPos, seg>>
           /\ IF r.buf = <<>>
              THEN /\ pc' = [pc EXCEPT ![0] = "default"]
                   /\ th' = [th EXCEPT ![0].pos = 0]
                   /\ UNCHANGED args
              ELSE IF ~from_utf8_ok(r.buf)
              THEN /\ pc' = [pc EXCEPT ![0] = "from_failed"]
                   /\ th' = [th EXCEPT ![0].pos = 0]
                   /\ UNCHANGED args
              ELSE /\ args' = [args EXCEPT !.files = PushName(@, r.buf)]
                   /\ th' = [th EXCEPT ![0].pos = IF FromStdin THEN @ ELSE r.pos]
                   /\ UNCHANGED pc
    /\ UNCHANGED <<m, cli, file_f, stdinData, lo, hi, todo, acc, reduced, file_counts,
                   counts, out, err, lock, result>>

\* Mutant: a manifest that cannot be read is passed over.
FilesFromFailedGoesOn ==
    /\ pc[0] = "from_failed"
    /\ pc' = [pc EXCEPT ![0] = "default"]
    /\ UNCHANGED <<m, cli, args, file_f, stdinData, stdinPos, th, lo, hi, todo, acc, reduced,
                   file_counts, counts, out, err, lock, result, seg>>

\* main, line 206: files_from failed, `?` returns from main.
FilesFromFailed ==
    /\ pc[0] = "from_failed"
    /\ pc' = [pc EXCEPT ![0] = "error"]
    /\ UNCHANGED <<m, cli, args, file_f, stdinData, stdinPos, th, lo, hi, todo, acc, reduced,
                   file_counts, counts, out, err, lock, result, seg>>

\* Mutant: an empty source list is left empty.
DefaultStdinNone ==
    /\ pc[0] = "default"
    /\ counts' = CountsDefault
    /\ result' = [i \in 1..Len(args.files) |-> NoResult]
    /\ pc' = [pc EXCEPT ![0] = "loop"]
    /\ UNCHANGED <<m, cli, args, file_f, stdinData, stdinPos, th, lo, hi, todo, acc, reduced,
                   file_counts, out, err, lock, seg>>

\* main, lines 208-212: with no source, standard input.
DefaultStdin ==
    /\ pc[0] = "default"
    /\ args' = IF Len(args.files) = 0
               THEN [args EXCEPT !.files = Append(args.files, "-")] ELSE args
    /\ counts' = CountsDefault
    /\ result' = [i \in 1..Len(args'.files) |-> NoResult]
    /\ pc' = [pc EXCEPT ![0] = "loop"]
    /\ UNCHANGED <<m, cli, file_f, stdinData, stdinPos, th, lo, hi, todo, acc, reduced,
                   file_counts, out, err, lock, seg>>

\* main, line 217 (and 231-234 for a file group): the next group of the
\* source list, or the end of the loop.
NextGroup ==
    /\ pc[0] = "loop"
    /\ IF hi >= Len(args.files)
       THEN /\ pc' = [pc EXCEPT ![0] = "total"]
            /\ UNCHANGED <<lo, hi, th, todo, acc, reduced, file_counts>>
       ELSE LET first == hi + 1
                last  == GroupEnd(args.files, first)
            IN  /\ lo' = first
                /\ hi' = last
                /\ IF IsStdin(args.files[first])
                   THEN /\ pc' = [pc EXCEPT ![0] = "stdin_run"]
                        /\ th' = [th EXCEPT ![0].src = first]
                        /\ UNCHANGED <<todo, acc, reduced, file_counts>>
                   ELSE /\ pc' = [pc EXCEPT ![0] = "file_run"]
                        /\ todo' = first..last
                        /\ acc' = [w \in Workers |-> CountsDefault]
                        /\ reduced' = {}
                        /\ file_counts' = CountsDefault
                        /\ UNCHANGED th
    /\ UNCHANGED <<m, cli, args, file_f, stdinData, stdinPos, counts, out, err, lock,
                   result, seg>>

\* main, lines 220-222: the next occurrence of standard input of the group
\* enters count_file (lines 111-127), or the group is over.
StdinBegin ==
    /\ pc[0] = "stdin_run"
    /\ IF th[0].src > hi
       THEN /\ pc' = [pc EXCEPT ![0] = "loop"]
            /\ UNCHANGED <<th, seg>>
       ELSE /\ pc' = [pc EXCEPT ![0] = "read"]
            /\ th' = [th EXCEPT ![0].c = CountsDefault, ![0].line = <<>>]
            /\ seg' = Append(seg, [src |-> th[0].src, from |-> stdinPos, to |-> stdinPos])
    /\ UNCHANGED <<m, cli, args, file_f, stdinData, stdinPos, lo, hi, todo, acc, reduced,
                   file_counts, counts, out, err, lock, result>>

\* Mutant: a failure of standard input is reported and skipped, like a file's.
StdinFailedSkips ==
    /\ pc[0] = "failed"
    /\ err' = Append(err, [path |-> "-"])
    /\ th' = [th EXCEPT ![0].src = @ + 1]
    /\ pc' = [pc EXCEPT ![0] = "stdin_run"]
    /\ UNCHANGED <<m, cli, args, file_f, stdinData, stdinPos, lo, hi, todo, acc, reduced,
                   file_counts, counts, out, lock, result, seg>>

\* main, line 222: count_file failed on standard input, `?` returns from main.
StdinFailed ==
    /\ pc[0] = "failed"
    /\ pc' = [pc EXCEPT ![0] = "error"]
    /\ UNCHANGED <<m, cli, args, file_f, stdinData, stdinPos, th, lo, hi, todo, acc, reduced,
                   file_counts, counts, out, err, lock, result, seg>>

\* main, line 225.
StdinMerge ==
    /\ pc[0] = "merge"
    /\ counts' = MergeWith(counts, th[0].c)
    /\ th' = [th EXCEPT ![0] = [Locals0 EXCEPT !.src = th[0].src + 1]]
    /\ pc' = [pc EXCEPT ![0] = "stdin_run"]
    /\ UNCHANGED <<m, cli, args, file_f, stdinData, stdinPos, lo, hi, todo, acc, reduced,
                   file_counts, out, err, lock, result, seg>>

\* Mutant: the total line is written for a single source too.
TotalAnyCount ==
    /\ pc[0] = "total"
    /\ IF Len(args.files) > 0
       THEN /\ th' = [th EXCEPT ![0].src = 0, ![0].c = counts]
            /\ pc' = [pc EXCEPT ![0] = "print_lock"]
       ELSE /\ pc' = [pc EXCEPT ![0] = "done"]
            /\ UNCHANGED th
    /\ UNCHANGED <<m, cli, args, file_f, stdinData, stdinPos, lo, hi, todo, acc, reduced,
                   file_counts, counts, out, err, lock, result, seg>>

\* main, lines 266-270.
Total ==
    /\ pc[0] = "total"
    /\ IF Len(args.files) > 1
       THEN /\ th' = [th EXCEPT ![0].src = 0, ![0].c = counts]
            /\ pc' = [pc EXCEPT ![0] = "print_lock"]
       ELSE /\ pc' = [pc EXCEPT ![0] = "done"]
            /\ UNCHANGED th
    /\ UNCHANGED <<m, cli, args, file_f, stdinData, stdinPos, lo, hi, todo, acc, reduced,
                   file_counts, counts, out, err, lock, result, seg>>

\* ------------------------------------------------------------- count_file
\* The stream a thread's scan reads and where it stands in it.
ScanData(t) == IF t = 0 THEN stdinData ELSE Fs(args.files[th[t].src]).data

ScanPos(t) == IF t = 0 THEN stdinPos ELSE th[t].pos

\* Mutant: the end of the stream is counted as a line.
ReadCountsEnd(t) ==
    /\ pc[t] = "read"
    /\ LET r == read_line(ScanData(t), ScanPos(t))
       IN  /\ IF t = 0
              THEN /\ stdinPos' = r.pos
                   /\ seg' = [seg EXCEPT ![Len(seg)].to = r.pos]
              ELSE UNCHANGED <<stdinPos, seg>>
           /\ IF r.err
              THEN /\ pc' = [pc EXCEPT ![t] = IF t = 0 THEN "failed" ELSE "eprint"]
                   /\ th' = [th EXCEPT ![t].pos = IF t = 0 THEN @ ELSE r.pos]
                   /\ UNCHANGED result
              ELSE IF r.line = <<>>
              THEN /\ pc' = [pc EXCEPT ![t] = "print_lock"]
                   /\ th' = [th EXCEPT ![t].pos = IF t = 0 THEN @ ELSE r.pos,
                                       ![t].c.lines = @ + 1]
                   /\ result' = [result EXCEPT ![th[t].src] =
                                   [st |-> "ok", c |-> [th[t].c EXCEPT !.lines = @ + 1]]]
              ELSE \/ /\ th' = [th EXCEPT ![t].pos = IF t = 0 THEN @ ELSE r.pos,
                                          ![t].line = r.line,
                                          ![t].count = IF Measures(args)
                                                       THEN UnitCount(args, r.line) ELSE @,
                                          ![t].line_len = IF Measures(args)
                                                          THEN LineLen(args, r.line) ELSE @,
                                          ![t].c = CountLine(args, @, r.line, t # 0)]
                      /\ UNCHANGED <<pc, result>>
                   \/ /\ Underflows(args, r.line)
                      /\ pc' = [pc EXCEPT ![t] = "panicked"]
                      /\ th' = [th EXCEPT ![t].pos = IF t = 0 THEN @ ELSE r.pos,
                                          ![t].line = r.line,
                                          ![t].count = UnitCount(args, r.line)]
                      /\ UNCHANGED result
    /\ UNCHANGED <<m, cli, args, file_f, stdinData, lo, hi, todo, acc, reduced, file_counts,
                   counts, out, err, lock>>

\* count_file, lines 128-165: one read_line and the turn of the loop it
\* leads to; Ok(0) ends the scan with Ok(counts), an error with Err.
Read(t) ==
    /\ pc[t] = "read"
    /\ LET r == read_line(ScanData(t), ScanPos(t))
       IN  /\ IF t = 0
              THEN /\ stdinPos' = r.pos
                   /\ seg' = [seg EXCEPT ![Len(seg)].to = r.pos]
              ELSE UNCHANGED <<stdinPos, seg>>
           /\ IF r.err
              THEN /\ pc' = [pc EXCEPT ![t] = IF t = 0 THEN "failed" ELSE "eprint"]
                   /\ th' = [th EXCEPT ![t].pos = IF t = 0 THEN @ ELSE r.pos]
                   /\ UNCHANGED result
              ELSE IF r.line = <<>>
              THEN /\ pc' = [pc EXCEPT ![t] = "print_lock"]
                   /\ th' = [th EXCEPT ![t].pos = IF t = 0 THEN @ ELSE r.pos]
                   /\ result' = [result EXCEPT ![th[t].src] = [st |-> "ok", c |-> th[t].c]]
              ELSE \/ /\ th' = [th EXCEPT ![t].pos = IF t = 0 THEN @ ELSE r.pos,
                                          ![t].line = r.line,
                                          ![t].count = IF Measures(args)
                                                       THEN UnitCount(args, r.line) ELSE @,
                                          ![t].line_len = IF Measures(args)
                                                          THEN LineLen(args, r.line) ELSE @,
                                          ![t].c = CountLine(args, @, r.line, t # 0)]
                      /\ UNCHANGED <<pc, result>>
                   \/ /\ Underflows(args, r.line)
                      /\ pc' = [pc EXCEPT ![t] = "panicked"]
                      /\ th' = [th EXCEPT ![t].pos = IF t = 0 THEN @ ELSE r.pos,
                                          ![t].line = r.line,
                                          ![t].count = UnitCount(args, r.line)]
                      /\ UNCHANGED result
    /\ UNCHANGED <<m, cli, args, file_f, stdinData, lo, hi, todo, acc, reduced, file_counts,
                   counts, out, err, lock>>

\* ------------------------------------------------------------- the pool
\* The closure of fold, lines 236-239, up to the loop of count_file: a
\* worker begins a source of the group: File::open, then count_file's
\* lines 111-127 (the metadata shortcut for the byte count).
StartFile(w) ==
    /\ pc[0] = "file_run"
    /\ pc[w] = "idle"
    /\ \E i \in todo :
         LET f == Fs(args.files[i])
         IN  /\ todo' = todo \ {i}
             /\ IF ~f.exists \/ (args.count_bytes /\ ~f.meta)
                THEN /\ pc' = [pc EXCEPT ![w] = "eprint"]
                     /\ th' = [th EXCEPT ![w] = [Locals0 EXCEPT !.src = i]]
                     /\ UNCHANGED result
                ELSE LET c0 == [CountsDefault EXCEPT
                                  !.bytes = IF args.count_bytes
                                            THEN as_bytes_len(f.data) ELSE 0]
                     IN  /\ th' = [th EXCEPT ![w] = [Locals0 EXCEPT !.src = i, !.c = c0]]
                         /\ IF needs_read(args)
                            THEN /\ pc' = [pc EXCEPT ![w] = "read"]
                                 /\ UNCHANGED result
                            ELSE /\ pc' = [pc EXCEPT ![w] = "print_lock"]
                                 /\ result' = [result EXCEPT ![i] = [st |-> "ok", c |-> c0]]
    /\ UNCHANGED <<m, cli, args, file_f, stdinData, stdinPos, lo, hi, acc, reduced,
                   file_counts, counts, out, err, lock, seg>>

\* Mutant: the counts of the failed scan are folded in all the same.
FileFailedKeepsPartial(w) ==
    /\ w \in Workers
    /\ pc[w] = "eprint"
    /\ err' = Append(err, [path |-> args.files[th[w].src]])
    /\ result' = [result EXCEPT ![th[w].src] = [st |-> "err", c |-> CountsDefault]]
    /\ acc' = [acc EXCEPT ![w] = MergeWith(@, th[w].c)]
    /\ th' = [th EXCEPT ![w] = Locals0]
    /\ pc' = [pc EXCEPT ![w] = "idle"]
    /\ UNCHANGED <<m, cli, args, file_f, stdinData, stdinPos, lo, hi, todo, reduced,
                   file_counts, counts, out, lock, seg>>

\* The closure of fold, lines 247-250: the file's error goes to standard
\* error, the accumulator is returned as it was.
FileFailed(w) ==
    /\ w \in Workers
    /\ pc[w] = "eprint"
    /\ err' = Append(err, [path |-> args.files[th[w].src]])
    /\ result' = [result EXCEPT ![th[w].src] = [st |-> "err", c |-> CountsDefault]]
    /\ th' = [th EXCEPT ![w] = Locals0]
    /\ pc' = [pc EXCEPT ![w] = "idle"]
    /\ UNCHANGED <<m, cli, args, file_f, stdinData, stdinPos, lo, hi, todo, acc, reduced,
                   file_counts, counts, out, lock, seg>>

\* The closure of fold, lines 244-245; the locals of the scan are dropped.
FoldMerge(w) ==
    /\ w \in Workers
    /\ pc[w] = "merge"
    /\ acc' = [acc EXCEPT ![w] = MergeWith(@, th[w].c)]
    /\ th' = [th EXCEPT ![w] = Locals0]
    /\ pc' = [pc EXCEPT ![w] = "idle"]
    /\ UNCHANGED <<m, cli, args, file_f, stdinData, stdinPos, lo, hi, todo, reduced,
                   file_counts, counts, out, err, lock, result, seg>>

\* Mutant: main goes on once every source was begun, not finished.
RunJoinedEarly == todo = {}

\* The fork-join of lines 232-260 has joined: every source of the group was
\* begun and every worker is through with its own.
RunJoined == todo = {} /\ \A w \in Workers : pc[w] = "idle"

\* reduce, lines 254-260: the accumulators of the fold, in any order.
Reduce(w) ==
    /\ pc[0] = "file_run"
    /\ RunJoined
    /\ w \notin reduced
    /\ file_counts' = MergeWith(file_counts, acc[w])
    /\ reduced' = reduced \cup {w}
    /\ UNCHANGED <<m, cli, args, file_f, stdinData, stdinPos, pc, th, lo, hi, todo, acc,
                   counts, out, err, lock, result, seg>>

\* main, line 262; the accumulators of the group are dropped.
MergeRun ==
    /\ pc[0] = "file_run"
    /\ RunJoined
    /\ reduced = Workers
    /\ counts' = MergeWith(counts, file_counts)
    /\ acc' = [w \in Workers |-> CountsDefault]
    /\ reduced' = {}
    /\ file_counts' = CountsDefault
    /\ pc' = [pc EXCEPT ![0] = "loop"]
    /\ UNCHANGED <<m, cli, args, file_f, stdinData, stdinPos, th, lo, hi, todo, out, err,
                   lock, result, seg>>

\* A panic in a worker is carried to the thread that waits for the pool,
\* once the workers that still run have come to rest.
JoinPanic ==
    /\ pc[0] = "file_run"
    /\ \A w \in Workers : pc[w] \in {"idle", "panicked"}
    /\ \E w \in Workers : pc[w] = "panicked"
    /\ pc' = [pc EXCEPT ![0] = "panicked"]
    /\ UNCHANGED <<m, cli, args, file_f, stdinData, stdinPos, th, lo, hi, todo, acc, reduced,
                   file_counts, counts, out, err, lock, result, seg>>

\* ------------------------------------------------------------- Counts::print
\* Mutant: standard output is written without its lock.
LockIgnored == TRUE

\* stdout.lock(), line 84: granted when no thread holds the lock.
LockFree == lock = {}

PrintLock(t) ==
    /\ pc[t] = "print_lock"
    /\ LockFree
    /\ lock' = lock \cup {t}
    /\ th' = [th EXCEPT ![t].k = 0]
    /\ pc' = [pc EXCEPT ![t] = "print"]
    /\ UNCHANGED <<m, cli, args, file_f, stdinData, stdinPos, lo, hi, todo, acc, reduced,
                   file_counts, counts, out, err, result, seg>>

\* One write! of lines 86-104.
PrintField(t) ==
    /\ pc[t] = "print"
    /\ th[t].k < Len(PrintedFields(args))
    /\ LET f == PrintedFields(args)[th[t].k + 1]
       IN  out' = Append(out, [src |-> th[t].src, part |-> "field", what |-> f,
                               val |-> th[t].c[f]])
    /\ th' = [th EXCEPT ![t].k = @ + 1]
    /\ UNCHANGED <<m, cli, args, file_f, stdinData, stdinPos, pc, lo, hi, todo, acc, reduced,
                   file_counts, counts, err, lock, result, seg>>

\* writeln! of line 106, and the lock dropped at line 107.
PrintName(t) ==
    /\ pc[t] = "print"
    /\ th[t].k = Len(PrintedFields(args))
    /\ out' = Append(out, [src |-> th[t].src, part |-> "name", what |-> Label(t),
                           val |-> 0])
    /\ lock' = lock \ {t}
    /\ pc' = [pc EXCEPT ![t] = IF t = 0 /\ th[t].src = 0 THEN "done" ELSE "merge"]
    /\ UNCHANGED <<m, cli, args, file_f, stdinData, stdinPos, th, lo, hi, todo, acc, reduced,
                   file_counts, counts, err, result, seg>>

\* ------------------------------------------------------------- inputs
SeqsUpTo(S, n) == UNION {[1..k -> S] : k \in 0..n}

\* Args::from_args for the flags in S and the sources in files.
MkArgs(S, files) ==
    [count_bytes     |-> "count_bytes" \in S,
     count_chars     |-> "count_chars" \in S,
     count_words     |-> "count_words" \in S,
     count_lines     |-> "count_lines" \in S,
     max_line_length |-> "max_line_length" \in S,
     utf_chars       |-> "utf_chars" \in S,
     files_from      |-> <<>>,
     files           |-> files]

\* --files0-from=source
WithFilesFrom(a, source) == [a EXCEPT !.files_from = <<source>>]

\* What standard input delivers in the orchestration runs: two stretches
\* closed by an end-of-file, or a stream that fails after its first line.
StdinChoices == {<<"a", "LF", "EOF", "CR", "LF">>, <<"SP", "a", "LF", "BAD">>}

\* The flag sets of the orchestration runs: none, -m --utf-chars.
FlagChoices == {{}, {"count_chars", "utf_chars"}}

SourceNames == {"-", "a", "p", "x"}

FileAlphabet == {"a", "SP", "LF", "CR", "FF", "cm", "BAD"}

StdinAlphabet == FileAlphabet \cup {"EOF"}

\* merge_with applied on its own: the operands a, b, c and what it made of
\* them so far.
MergeIdle ==
    [a |-> CountsDefault, b |-> CountsDefault, c |-> CountsDefault, step |-> 0,
     za |-> CountsDefault, az |-> CountsDefault, ab |-> CountsDefault,
     ba |-> CountsDefault, ab_c |-> CountsDefault, a_bc |-> CountsDefault]

InitRest ==
    /\ args = cli
    /\ stdinPos = 0
    /\ pc = [t \in Threads |-> IF t = 0 THEN "start" ELSE "idle"]
    /\ th = [t \in Threads |-> Locals0]
    /\ lo = 1
    /\ hi = 0
    /\ todo = {}
    /\ acc = [w \in Workers |-> CountsDefault]
    /\ reduced = {}
    /\ file_counts = CountsDefault
    /\ counts = CountsDefault
    /\ out = <<>>
    /\ err = <<>>
    /\ lock = {}
    /\ result = <<>>
    /\ seg = <<>>

\* Whether a run on these sources reads standard input at all.
ReadsStdin(files) == files = <<>> \/ \E i \in 1..Len(files) : IsStdin(files[i])

\* The manifest files of the orchestration runs.
ManifestNames == {"m", "e", "n", "x"}

\* Standard input as a manifest: the names a and -, an end-of-file, and
\* what the scan of - then reads.
ManifestStdin == <<"a", "NUL", "-", "NUL", "EOF", "a", "LF">>

\* Standard input as a manifest whose second name does not decode.
ManifestStdinBad == <<"a", "NUL", "BAD">>

\* The orchestration: every source list up to MaxFiles over standard input
\* and the files that exist; every source list up to MaxDirect, the file
\* that does not exist among its names, beside each manifest.
Init ==
    /\ \/ /\ cli \in {MkArgs(S, files) :
                         S \in FlagChoices,
                         files \in SeqsUpTo(SourceNames \ {"x"}, MaxFiles)}
          /\ stdinData \in IF ReadsStdin(cli.files) THEN StdinChoices ELSE {<<>>}
       \/ /\ cli \in {WithFilesFrom(MkArgs(S, files), n) :
                         S \in FlagChoices, files \in SeqsUpTo(SourceNames, MaxDirect),
                         n \in ManifestNames}
          /\ stdinData \in IF cli.files_from[1] \in {"m", "e"}
                            THEN StdinChoices ELSE {<<>>}
       \/ /\ cli \in {WithFilesFrom(MkArgs(S, files), "-") :
                         S \in FlagChoices, files \in SeqsUpTo(SourceNames, MaxDirect)}
          /\ stdinData \in {ManifestStdin, ManifestStdinBad}
    /\ file_f = NoFile
    /\ m = <<>>
    /\ InitRest

\* The flag sets of the long scans: none, -L, -m, -L --utf-chars, -c, -c -l,
\* all five counts, all five counts --utf-chars.
ScanFlagChoices ==
    {{}, {"max_line_length"}, {"count_chars"}, {"max_line_length", "utf_chars"},
     {"count_bytes"}, {"count_bytes", "count_lines"},
     Flags \ {"utf_chars"}, Flags}

\* One source, a named file or standard input, with the flag sets of F and
\* every content up to n tokens.
ScanInputs(F, n) ==
    \/ /\ cli \in {MkArgs(S, <<"f">>) : S \in F}
       /\ file_f \in {File(d) : d \in SeqsUpTo(FileAlphabet, n)} \cup {NoFile, NoMetaFile}
       /\ stdinData = <<>>
    \/ /\ cli \in {MkArgs(S, files) : S \in F, files \in {<<"-">>, <<" -">>}}
       /\ file_f = NoFile
       /\ stdinData \in SeqsUpTo(StdinAlphabet, n)

\* Two terminated lines, "a b" and "c".
TwoLines == <<"a", "SP", "a", "LF", "a", "LF">>

\* The two lines as a named file and as standard input, all five counts.
ScanExample ==
    \/ /\ cli = MkArgs(Flags \ {"utf_chars"}, <<"f">>)
       /\ file_f = File(TwoLines)
       /\ stdinData = <<>>
    \/ /\ cli = MkArgs(Flags \ {"utf_chars"}, <<"-">>)
       /\ file_f = NoFile
       /\ stdinData = TwoLines

\* One named file, named by a manifest that is read or by one that fails.
ScanByManifest ==
    /\ cli \in {WithFilesFrom(MkArgs(S, <<>>), n) : S \in ScanFlagChoices, n \in {"g", "n"}}
    /\ file_f \in {File(d) : d \in SeqsUpTo(FileAlphabet, MaxLenAllFlags)}
    /\ stdinData = <<>>

\* The scan: every flag set on the contents up to MaxLenAllFlags, the flag
\* sets above on the contents up to MaxLen.
InitScan ==
    /\ \/ ScanInputs(SUBSET Flags, MaxLenAllFlags)
       \/ ScanInputs(ScanFlagChoices, MaxLen)
       \/ ScanExample
       \/ ScanByManifest
    /\ m = <<>>
    /\ InitRest

\* The operands of merge_with on its own: the summed fields and the
\* maximum drawn from these values.
MergeSumValues == {0, 1}

MergeLenValues == {0, 1, 2}

MergeOperands ==
    [words : MergeSumValues, lines : MergeSumValues, bytes : MergeSumValues,
     chars : MergeSumValues, max_line_len : MergeLenValues]

InitMerge ==
    /\ cli = MkArgs({}, <<>>)
    /\ file_f = NoFile
    /\ stdinData = <<>>
    /\ \E a, b, c \in MergeOperands : m = [MergeIdle EXCEPT !.a = a, !.b = b, !.c = c]
    /\ InitRest

\* b merged into a, a into b, and each into and with a fresh Counts.
MergeTwo ==
    /\ m.step = 0
    /\ m' = [m EXCEPT !.step = 1,
                      !.za = MergeWith(CountsDefault, m.a),
                      !.az = MergeWith(m.a, CountsDefault),
                      !.ab = MergeWith(MergeWith(CountsDefault, m.a), m.b),
                      !.ba = MergeWith(MergeWith(CountsDefault, m.b), m.a)]
    /\ UNCHANGED <<cli, args, file_f, stdinData, stdinPos, pc, th, lo, hi, todo, acc,
                   reduced, file_counts, counts, out, err, lock, result, seg>>

\* c merged into the merge of a and b.
MergeLeft ==
    /\ m.step = 1
    /\ m' = [m EXCEPT !.step = 2, !.ab_c = MergeWith(MergeWith(m.a, m.b), m.c)]
    /\ UNCHANGED <<cli, args, file_f, stdinData, stdinPos, pc, th, lo, hi, todo, acc,
                   reduced, file_counts, counts, out, err, lock, result, seg>>

\* The merge of b and c merged into a.
MergeRight ==
    /\ m.step = 2
    /\ m' = [m EXCEPT !.step = 3, !.a_bc = MergeWith(m.a, MergeWith(m.b, m.c))]
    /\ UNCHANGED <<cli, args, file_f, stdinData, stdinPos, pc, th, lo, hi, todo, acc,
                   reduced, file_counts, counts, out, err, lock, result, seg>>

Next ==
    \/ ResolveMode
    \/ FilesFromOpen
    \/ FilesFromRead
    \/ FilesFromFailed
    \/ DefaultStdin
    \/ NextGroup
    \/ StdinBegin
    \/ StdinFailed
    \/ StdinMerge
    \/ Total
    \/ MergeRun
    \/ JoinPanic
    \/ \E t \in Threads : Read(t) \/ PrintLock(t) \/ PrintField(t) \/ PrintName(t)
    \/ \E w \in Workers : StartFile(w) \/ FileFailed(w) \/ FoldMerge(w) \/ Reduce(w)

Spec == Init /\ [][Next]_vars

SpecScan == InitScan /\ [][Next]_vars

NextMerge == MergeTwo \/ MergeLeft \/ MergeRight

SpecMerge == InitMerge /\ [][NextMerge]_vars

\* files_from on its own: the bytes of a manifest, and three names.
ManifestAlphabet == {"a", "b", "-", "NUL", "BAD"}

ThreeNames == <<"a", "NUL", "b", "NUL", "c", "NUL">>

\* A manifest file or standard input with every content up to MaxManifest,
\* beside no source or one; a manifest that does not exist; no manifest.
InitManifest ==
    /\ \/ /\ cli \in {WithFilesFrom(MkArgs({}, files), "f") : files \in {<<>>, <<"c">>}}
          /\ file_f \in {File(d) : d \in SeqsUpTo(ManifestAlphabet, MaxManifest)
                                            \cup {ThreeNames}} \cup {NoFile}
          /\ stdinData = <<>>
       \/ /\ cli \in {WithFilesFrom(MkArgs({}, files), "-") : files \in {<<>>, <<"c">>}}
          /\ file_f = NoFile
          /\ stdinData \in SeqsUpTo(ManifestAlphabet \cup {"EOF"}, MaxManifest)
       \/ /\ cli = MkArgs({}, <<"c">>)
          /\ file_f = NoFile
          /\ stdinData = <<>>
    /\ m = <<>>
    /\ InitRest

NextManifest == ResolveMode \/ FilesFromOpen \/ FilesFromRead \/ FilesFromFailed

SpecManifest == InitManifest /\ [][NextManifest]_vars

\* The steps of the main thread and of a worker of the pool.
MainStep ==
    \/ ResolveMode
    \/ FilesFromOpen
    \/ FilesFromRead
    \/ FilesFromFailed
    \/ DefaultStdin
    \/ NextGroup
    \/ StdinBegin
    \/ StdinFailed
    \/ StdinMerge
    \/ Total
    \/ MergeRun
    \/ JoinPanic
    \/ Read(0) \/ PrintLock(0) \/ PrintField(0) \/ PrintName(0)
    \/ \E w \in Workers : Reduce(w)

WorkerStep(w) ==
    \/ StartFile(w) \/ FileFailed(w) \/ FoldMerge(w)
    \/ Read(w) \/ PrintLock(w) \/ PrintField(w) \/ PrintName(w)

\* Every thread that can take a step takes one in the end: the main thread
\* and the threads of the pool are scheduled by the operating system.
SpecFair ==
    /\ Init
    /\ [][Next]_vars
    /\ WF_vars(MainStep)
    /\ \A w \in Workers : WF_vars(WorkerStep(w))

\* ------------------------------------------------------------- reference
\* count_file as a function of the whole content: the loop of lines 128-162
\* run to its end from position pos.
RECURSIVE ScanFrom(_, _, _, _, _)
ScanFrom(a, data, pos, c, is_file) ==
    LET r == read_line(data, pos)
    IN  IF r.err THEN [st |-> "err", c |-> CountsDefault]
        ELSE IF r.line = <<>> THEN [st |-> "ok", c |-> c]
        ELSE ScanFrom(a, data, r.pos, CountLine(a, c, r.line, is_file), is_file)

\* File::open and count_file on one named file, lines 237-238.
CountNamedFile(a, f) ==
    IF ~f.exists \/ (a.count_bytes /\ ~f.meta)
    THEN [st |-> "err", c |-> CountsDefault]
    ELSE LET c0 == [CountsDefault EXCEPT
                      !.bytes = IF a.count_bytes THEN as_bytes_len(f.data) ELSE 0]
         IN  IF needs_read(a) THEN ScanFrom(a, f.data, 0, c0, TRUE)
             ELSE [st |-> "ok", c |-> c0]

\* Sums of four fields and the maximum of the fifth, written out.
SumAndMax(x, y) ==
    [words |-> x.words + y.words, lines |-> x.lines + y.lines,
     bytes |-> x.bytes + y.bytes, chars |-> x.chars + y.chars,
     max_line_len |-> IF x.max_line_len < y.max_line_len
                      THEN y.max_line_len ELSE x.max_line_len]

\* Sources i..j scanned one at a time in list order, each result added.
RECURSIVE SequentialRun(_, _)
SequentialRun(i, j) ==
    IF j < i THEN CountsDefault
    ELSE LET r == CountNamedFile(args, Fs(args.files[j]))
         IN  IF r.st = "ok" THEN SumAndMax(SequentialRun(i, j - 1), r.c)
             ELSE SequentialRun(i, j - 1)

\* What the scans of sources i..j that returned Ok returned, added up.
RECURSIVE OkSum(_, _)
OkSum(i, j) ==
    IF j < i THEN CountsDefault
    ELSE IF result[j].st = "ok" THEN SumAndMax(OkSum(i, j - 1), result[j].c)
    ELSE OkSum(i, j - 1)

\* The fork-join of the current file group is over and reduced.
RunReduced == pc[0] = "file_run" /\ RunJoined /\ reduced = Workers

Sources == 1..Len(args.files)

Reported(i) == \E k \in 1..Len(out) : out[k].src = i /\ out[k].part = "name"

Written(i) == \E k \in 1..Len(out) : out[k].src = i

Failed == {i \in 1..Len(result) : result[i].st = "err"}

\* ------------------------------------------------------------- claims

\* C1: for every split of a file group over the workers and every order in
\* which they finish and are reduced, the accumulator of fold and reduce
\* equals that of scanning the group's files one at a time in list order:
\* the same sums of lines, words, bytes, chars, the same maximum line length.
C1_ParallelEqualsSequential == RunReduced => file_counts = SequentialRun(lo, hi)

\* C1 witness: a group of three files is reduced, both workers folded files.
C1_Witness ==
    /\ RunReduced
    /\ hi - lo = 2
    /\ \A w \in Workers : acc[w].lines > 0
    /\ file_counts.max_line_len > 0

\* C2: standard input is read by main alone and never beside a file scan:
\* while a stdin scan runs no worker runs and no file waits, no worker ever
\* scans a stdin source, the stdin occurrences are scanned in list order,
\* and the stretches of the stream they consume (after the stretch a
\* manifest on standard input took) follow one another from the start of
\* the stream without gap or overlap.
C2_StdinSerial ==
    /\ pc[0] \in {"read", "failed"} => todo = {} /\ \A w \in Workers : pc[w] = "idle"
    /\ \A w \in Workers : pc[w] # "idle" => ~IsStdin(args.files[th[w].src])
    /\ \A k \in 1..Len(seg) :
         /\ IF seg[k].src = 0 THEN k = 1 /\ FromStdin ELSE IsStdin(args.files[seg[k].src])
         /\ seg[k].from <= seg[k].to
         /\ seg[k].from = IF k = 1 THEN 0 ELSE seg[k-1].to
         /\ k > 1 => seg[k-1].src < seg[k].src
    /\ stdinPos = IF seg = <<>> THEN 0 ELSE seg[Len(seg)].to

\* C2 witness: two stdin occurrences with a file between them have each
\* consumed a stretch of the stream.
C2_Witness ==
    /\ Len(seg) = 2
    /\ seg[2].src = seg[1].src + 2
    /\ seg[1].from < seg[1].to
    /\ seg[2].from < seg[2].to
    /\ result[seg[1].src + 1].st = "ok"

\* C3: a named file that fails to open or scan gets one message on standard
\* error with its path and no write on standard output; nothing it counted
\* enters the reduced accumulator of its group or the grand total; every
\* other source is still scanned, reported and merged when the run ends.
C3_FileFailureConfined ==
    /\ \A i \in Failed :
         /\ ~IsStdin(args.files[i])
         /\ \E k \in 1..Len(err) : err[k].path = args.files[i]
         /\ ~Written(i)
    /\ Len(err) = Cardinality(Failed)
    /\ RunReduced => file_counts = OkSum(lo, hi)
    /\ pc[0] = "done" =>
         /\ \A i \in Sources : result[i].st # "none" /\ (result[i].st = "ok" => Reported(i))
         /\ counts = OkSum(1, Len(args.files))

\* C3 witness: a file failed after its first line was counted, a file of the
\* same group and a later stdin run were reported, and main is done.
C3_Witness ==
    /\ pc[0] = "done"
    /\ args.files = <<"p", "a", "-">>
    /\ result[1].st = "err" /\ result[2].st = "ok" /\ result[3].st = "ok"
    /\ Reported(2) /\ Reported(3)
    /\ counts.lines > 0

\* C4: once a scan of standard input has failed, main only returns the
\* error: nothing more is scanned, written or merged, no worker runs, the
\* failed occurrence has no report line, no later source has a result and
\* no total line exists, and the error state has no successor.
C4_StdinFailureTerminal ==
    [][pc[0] \in {"failed", "error"} =>
         /\ pc'[0] = "error"
         /\ pc[0] = "failed"
         /\ \A w \in Workers : pc[w] = "idle" /\ pc'[w] = "idle"
         /\ UNCHANGED <<out, err, result, counts, stdinPos, seg, th, todo, acc,
                        file_counts>>
         /\ ~Written(th[0].src)
         /\ ~Written(0)
         /\ \A i \in Sources : i >= th[0].src => result[i].st = "none"]_vars

\* C4 witness: stdin failed after an earlier source was reported and with a
\* source still to come.
C4_Witness ==
    /\ pc[0] = "error"
    /\ out # <<>>
    /\ th[0].src < Len(args.files)
    /\ th[0].c.lines > 0

\* What the report line of source i (0: the total line) shows for field f.
Shown(i, f) ==
    LET k == CHOOSE k \in 1..Len(out) :
                 out[k].src = i /\ out[k].part = "field" /\ out[k].what = f
    IN  out[k].val

ReportedSources == {i \in Sources : Reported(i)}

RECURSIVE SumShown(_, _)
SumShown(S, f) ==
    IF S = {} THEN 0
    ELSE LET i == CHOOSE i \in S : TRUE IN Shown(i, f) + SumShown(S \ {i}, f)

MaxShown(S, f) ==
    IF S = {} THEN 0 ELSE CHOOSE v \in {Shown(i, f) : i \in S} :
                              \A i \in S : Shown(i, f) <= v

\* C5: when main ends without a fatal error, there is a line named "total"
\* exactly when the source list has more than one entry; it is written once
\* and only after every report line; each field it shows is the sum (for
\* max_line_len the maximum) of what the printed report lines show.
C5_TotalLine ==
    /\ \A k \in 1..Len(out) : out[k].src = 0 =>
          /\ pc[0] \in {"print", "done"}
          /\ \A j \in k..Len(out) : out[j].src = 0
    /\ pc[0] = "done" =>
          /\ Len(args.files) > 1 <=> Reported(0)
          /\ Cardinality({k \in 1..Len(out) : out[k].src = 0 /\ out[k].part = "name"}) <= 1
          /\ \A k \in 1..Len(out) : out[k].src = 0 /\ out[k].part = "name" =>
                                     out[k].what = "total"
          /\ Reported(0) =>
               \A n \in 1..Len(PrintedFields(args)) :
                  LET f == PrintedFields(args)[n]
                  IN  /\ Cardinality({k \in 1..Len(out) :
                                        out[k].src = 0 /\ out[k].what = f}) = 1
                      /\ Shown(0, f) = IF f = "max_line_len"
                                       THEN MaxShown(ReportedSources, f)
                                       ELSE SumShown(ReportedSources, f)

\* C5 witness: main is done, one of three sources failed, two were reported
\* and the total line shows their lines.
C5_Witness ==
    /\ pc[0] = "done"
    /\ Len(args.files) = 3
    /\ Cardinality(ReportedSources) = 2
    /\ Failed # {}
    /\ Reported(0)
    /\ args.count_lines /\ Shown(0, "lines") > 1

\* The count selection, without the choice of the unit.
Selection(a) == {f \in Flags \ {"utf_chars"} : a[f]}

\* C6: once resolved, the count selection is {bytes, words, lines} if none
\* of the five count flags was given, and exactly the given flags otherwise;
\* no scan or run changes it afterwards.
C6_ModeResolution ==
    pc[0] # "start" =>
        Selection(args) = IF Selection(cli) = {}
                          THEN {"count_bytes", "count_words", "count_lines"}
                          ELSE Selection(cli)

\* C7 as claimed: the line length kept for max_line_len is the unit count
\* less exactly one when the line ends in LF, CR or FF, the unit count
\* otherwise.
C7_OneUnitRemoved ==
    \A t \in Threads :
       (Measures(args) /\ th[t].line # <<>> /\ pc[t] # "panicked") =>
           th[t].line_len = IF ends_with(th[t].line, LINE_CHARS)
                            THEN th[t].count - 1 ELSE th[t].count

\* The scalars LF, CR, FF a line ends in, counted from its end.
RECURSIVE TrailingTerminators(_)
TrailingTerminators(s) ==
    IF s = <<>> \/ s[Len(s)] \notin {"LF", "CR", "FF"} THEN 0
    ELSE 1 + TrailingTerminators(SubSeq(s, 1, Len(s) - 1))

\* C7 as amended: the line length kept for max_line_len is the unit count
\* less the number of all the LF, CR and FF the line ends in, in usize
\* arithmetic: nothing is taken off a line that ends in none, two units off
\* a line that ends in CR LF or in FF LF.
C7_AllTerminatorsRemoved ==
    \A t \in Threads :
       (Measures(args) /\ th[t].line # <<>> /\ pc[t] # "panicked") =>
           LET n == TrailingTerminators(th[t].line)
           IN  th[t].line_len = IF n <= th[t].count THEN th[t].count - n
                                ELSE th[t].count - n + UsizeMod

\* C7 witness: in scalar mode a line "a" CR LF was measured as one unit.
C7_Witness ==
    \E t \in Threads :
       /\ Measures(args) /\ ~args.utf_chars
       /\ th[t].line = <<"a", "CR", "LF">>
       /\ th[t].count = 3
       /\ th[t].line_len = 1

\* C8: on every turn of the scan loop, in scalar and in grapheme mode, the
\* five counts stay non-negative, max_line_len does not decrease, and the
\* subtraction of the trimmed terminators from the unit count does not go
\* below zero (no panic, no wrapped value).
C8_ScanNeverUnderflows ==
    [][\A t \in Threads : pc[t] = "read" =>
          /\ pc'[t] # "panicked"
          /\ \A f \in {"words", "lines", "bytes", "chars", "max_line_len"} :
                th'[t].c[f] >= 0
          /\ th'[t].c.max_line_len >= th[t].c.max_line_len
          /\ Subtracts(args, th'[t].line) => TrimDiff(th'[t].line) <= th'[t].count]_vars

\* C9: merge_with sums words, lines, bytes and chars and takes the larger
\* max_line_len; a fresh Counts is its identity on either side; merging a
\* then b into a fresh Counts gives what merging b then a gives; and
\* (a merged with b) merged with c equals a merged with (b merged with c).
C9_MergeAlgebra ==
    /\ m.step >= 1 =>
         /\ m.ab.words = m.a.words + m.b.words
         /\ m.ab.lines = m.a.lines + m.b.lines
         /\ m.ab.bytes = m.a.bytes + m.b.bytes
         /\ m.ab.chars = m.a.chars + m.b.chars
         /\ m.ab.max_line_len >= m.a.max_line_len
         /\ m.ab.max_line_len >= m.b.max_line_len
         /\ m.ab.max_line_len \in {m.a.max_line_len, m.b.max_line_len}
         /\ m.za = m.a
         /\ m.az = m.a
         /\ m.ab = m.ba
    /\ m.step >= 3 => m.ab_c = m.a_bc

\* C9 witness: three operands with different maxima and non-zero sums were
\* merged both ways.
C9_Witness ==
    /\ m.step = 3
    /\ m.a.max_line_len = 1 /\ m.b.max_line_len = 2 /\ m.c.max_line_len = 0
    /\ m.a.words = 1 /\ m.b.words = 1 /\ m.c.words = 1
    /\ m.ab_c.words = 3

\* C10: whatever the interleaving of the workers, each write of a field is
\* followed on standard output by a write of the same report line: no write
\* of another report line or of the total line falls between the first
\* field of a line and its name.
C10_ReportLinesAtomic ==
    /\ \A k \in 1..Len(out) - 1 : out[k].part = "field" => out[k + 1].src = out[k].src
    /\ \A k \in 1..Len(out) : \A j \in k + 1..Len(out) :
          out[k].part = "name" => out[j].src # out[k].src
    /\ (out # <<>> /\ out[Len(out)].part = "field") =>
          \E t \in Threads : lock = {t} /\ pc[t] = "print" /\ th[t].src = out[Len(out)].src

\* C10 witness: a worker waits for the lock while another has written part
\* of its report line.
C10_Witness ==
    \E w, v \in Workers :
       /\ lock = {w}
       /\ th[w].k >= 1
       /\ th[w].k < Len(PrintedFields(args))
       /\ pc[v] = "print_lock"

\* The stretch of standard input the scan of source i consumed.
Stretch(i) ==
    LET k == CHOOSE k \in 1..Len(seg) : seg[k].src = i
    IN  SubSeq(stdinData, seg[k].from + 1, seg[k].to)

\* What the scan of source i is given to read.
Content(i) == IF IsStdin(args.files[i]) THEN Stretch(i) ELSE Fs(args.files[i]).data

\* The count selection -c alone, on the same sources.
BytesOnly(a) == [a EXCEPT !.count_bytes = TRUE, !.count_chars = FALSE,
                          !.count_words = FALSE, !.count_lines = FALSE,
                          !.max_line_length = FALSE]

\* C11: for a named file and every count selection with bytes in it, the
\* bytes value of the scan is the byte length of the file from the first
\* turn of the loop to the report line: no line read adds to it; so what the
\* scan that reads the stream reports is what -c alone, which does not read
\* it, reports.
C11_BytesAgree ==
    /\ \A w \in Workers :
          (args.count_bytes /\ pc[w] \in {"read", "print_lock", "print", "merge"}) =>
              th[w].c.bytes = as_bytes_len(ScanData(w))
    /\ \A i \in 1..Len(result) :
          (args.count_bytes /\ result[i].st = "ok" /\ ~IsStdin(args.files[i])) =>
              /\ result[i].c.bytes = as_bytes_len(Fs(args.files[i]).data)
              /\ result[i].c.bytes = CountNamedFile(BytesOnly(args), Fs(args.files[i])).c.bytes
              /\ Reported(i) => Shown(i, "bytes") = as_bytes_len(Fs(args.files[i]).data)

\* C11 witness: with -c -l a file of two lines and four bytes was read and
\* reported.
C11_Witness ==
    /\ cli = MkArgs({"count_bytes", "count_lines"}, <<"f">>)
    /\ Len(result) = 1 /\ result[1].st = "ok"
    /\ result[1].c.lines = 2
    /\ file_f.data = <<"cm", "LF", "a">>
    /\ Reported(1) /\ Shown(1, "bytes") = 4

\* All five counts, in scalars.
AllFiveScalar == Selection(args) = Flags \ {"utf_chars"} /\ ~args.utf_chars

\* The scan of the only source returned Ok on this content.
Scanned(d) == Len(result) = 1 /\ result[1].st = "ok" /\ Content(1) = d

\* C12 as claimed: the two terminated lines "a b" and "c", scanned with all
\* five counts in scalars, give lines 2, words 2, bytes 6, chars 6 and
\* max_line_len 3.
C12_TwoLinesTwoWords ==
    (AllFiveScalar /\ Scanned(TwoLines)) =>
        result[1].c = [lines |-> 2, words |-> 2, bytes |-> 6, chars |-> 6,
                       max_line_len |-> 3]

\* C12 as amended: the two terminated lines "a b" and "c", scanned with all
\* five counts in scalars, give lines 2, words 3, bytes 6, chars 6 and
\* max_line_len 3.
C12_TwoLinesThreeWords ==
    (AllFiveScalar /\ Scanned(TwoLines)) =>
        result[1].c = [lines |-> 2, words |-> 3, bytes |-> 6, chars |-> 6,
                       max_line_len |-> 3]

\* C12 witness: the two lines were scanned from standard input with all five
\* counts and reported.
C12_Witness ==
    /\ AllFiveScalar /\ Scanned(TwoLines)
    /\ IsStdin(args.files[1])
    /\ Reported(1)

\* The line feeds of d, and the pieces of d that end without one: at a
\* zero-byte read or at the end of d.
Terminated(d) == Cardinality({i \in 1..Len(d) : d[i] = "LF"})

Unterminated(d) ==
    Cardinality({i \in 1..Len(d) : /\ d[i] \notin {"LF", "EOF"}
                                   /\ (i = Len(d) \/ d[i + 1] = "EOF")})

EmptySource(i) ==
    IF IsStdin(args.files[i])
    THEN \A j \in 1..Len(Stretch(i)) : Stretch(i)[j] = "EOF"
    ELSE Fs(args.files[i]).exists /\ Fs(args.files[i]).meta /\ Fs(args.files[i]).data = <<>>

\* C14: with any of the 64 sets of the six flags, the scan of a source of no
\* byte, standard input at its end or a named file of size 0, returns Ok
\* with lines, words, bytes, chars and max_line_len all 0, and every field
\* of its report line shows 0.
C14_EmptySource ==
    \A i \in 1..Len(result) :
       (result[i].st # "none" /\ EmptySource(i)) =>
           /\ result[i].st = "ok"
           /\ result[i].c = [lines |-> 0, words |-> 0, bytes |-> 0, chars |-> 0,
                             max_line_len |-> 0]
           /\ \A k \in 1..Len(out) :
                 (out[k].src = i /\ out[k].part = "field") => out[k].val = 0

\* C14 witness: with all six flags a file of size 0 was scanned and reported.
C14_Witness ==
    /\ cli = MkArgs(Flags, <<"f">>)
    /\ file_f = File(<<>>)
    /\ Len(result) = 1 /\ result[1].st = "ok"
    /\ Reported(1)

\* main has not yet left files_from.
Expanding == pc[0] \in {"start", "files_from", "from_read", "from_failed"}

\* The bytes of the manifest: the file, or what standard input delivers.
ManifestBytes ==
    IF args.files_from = <<>> THEN <<>>
    ELSE IF FromStdin THEN stdinData
    ELSE Fs(args.files_from[1]).data

\* No FILE was given and the manifest, if any, is there and holds no entry.
NoSource ==
    /\ cli.files = <<>>
    /\ \/ args.files_from = <<>>
       \/ FromStdin /\ (stdinData = <<>> \/ stdinData[1] = "EOF")
       \/ ~FromStdin /\ Fs(args.files_from[1]).exists /\ ManifestBytes = <<>>

\* The scans of standard input begun, and the report lines written.
StdinScans == {k \in 1..Len(seg) : seg[k].src > 0}

ReportLines == {k \in 1..Len(out) : out[k].part = "name"}

\* C15: with no FILE and no manifest entry the source list becomes the one
\* name "-": standard input is scanned once by main, no file is opened, the
\* one report line is named "-", and no total line is written; when main is
\* done there is exactly one scan and exactly one report line.  And a
\* source named "-" is never given to a worker to open: it is scanned from
\* standard input and no error message ever names it.
C15_DefaultStdin ==
    /\ (NoSource /\ ~Expanding /\ pc[0] # "default") =>
          /\ args.files = <<"-">>
          /\ Cardinality(StdinScans) <= 1
          /\ Cardinality(ReportLines) <= 1
          /\ \A k \in ReportLines : out[k].what = "-" /\ out[k].src = 1
          /\ ~Written(0)
          /\ err = <<>>
          /\ todo = {} /\ \A w \in Workers : pc[w] = "idle"
          /\ pc[0] = "done" =>
                /\ Cardinality(StdinScans) = 1
                /\ Cardinality(ReportLines) = 1
                /\ result[1].st = "ok"
    /\ \A w \in Workers : pc[w] # "idle" => args.files[th[w].src] # "-"
    /\ \A i \in 1..Len(result) :
          (args.files[i] = "-" /\ result[i].st # "none") =>
              /\ \E k \in StdinScans : seg[k].src = i
              /\ result[i].st = "ok"
    /\ \A k \in 1..Len(err) : err[k].path # "-"

\* C15 witness: with no FILE and an empty manifest main is done; standard
\* input was scanned and its line reported under the name "-".
C15_Witness ==
    /\ NoSource
    /\ args.files_from = <<"e">>
    /\ pc[0] = "done"
    /\ Reported(1) /\ result[1].c.lines > 0
    /\ out[Len(out)].what = "-"

\* The places of the NULs of d, and the place of the j-th.
NulAt(d) == {i \in 1..Len(d) : d[i] = "NUL"}

NthNul(d, j) == CHOOSE i \in NulAt(d) : Cardinality({p \in NulAt(d) : p <= i}) = j

\* d is a list of non-empty NUL-free names, each followed by one NUL.
WellFormed(d) ==
    /\ \A i \in 1..Len(d) : d[i] \notin {"BAD", "EOF"}
    /\ d # <<>> => d[1] # "NUL" /\ d[Len(d)] = "NUL"
    /\ \A i \in 1..Len(d) - 1 : ~(d[i] = "NUL" /\ d[i + 1] = "NUL")

\* The names of a well-formed d, in its order.
NamesOf(d) ==
    [j \in 1..Cardinality(NulAt(d)) |->
        to_owned(SubSeq(d, (IF j = 1 THEN 0 ELSE NthNul(d, j - 1)) + 1, NthNul(d, j) - 1))]

\* C16: when files_from has returned Ok on a manifest that is a list of
\* non-empty NUL-free names each followed by one NUL, the source list is
\* the sources given directly followed by those names, each once and in
\* the manifest's order; "a\0b\0c\0" adds "a", "b", "c".
C16_ManifestOrder ==
    (pc[0] = "default" /\ args.files_from # <<>>) =>
        /\ WellFormed(ManifestBytes) => args.files = cli.files \o NamesOf(ManifestBytes)
        /\ ManifestBytes = ThreeNames => args.files = cli.files \o <<"a", "b", "c">>

\* C16 witness: the manifest "a\0b\0c\0" was read beside the source c.
C16_Witness ==
    /\ pc[0] = "default"
    /\ cli.files = <<"c">>
    /\ ManifestBytes = ThreeNames
    /\ args.files = <<"c", "a", "b", "c">>

\* The scans of the sources up to the current group are over and merged.
GroupsDone ==
    /\ todo = {} /\ \A w \in Workers : pc[w] = "idle"
    /\ \A i \in 1..hi : result[i].st # "none"
    /\ counts = OkSum(1, hi)

\* C17: the group main's loop is at is a stretch lo..hi of the source list
\* whose sources are all standard input or all named files and that cannot
\* be extended on either side; the first group starts at the first source,
\* each next one right after the last (so the groups in order make up the
\* list), the loop ends only past the last source, and main moves to the
\* next group only when every scan of the groups so far has returned and
\* their counts are merged into the grand total.
C17_MaximalRuns ==
    /\ [](hi >= lo =>
            /\ 1 <= lo /\ hi <= Len(args.files)
            /\ \A i \in lo..hi : IsStdin(args.files[i]) = IsStdin(args.files[lo])
            /\ lo > 1 => IsStdin(args.files[lo - 1]) # IsStdin(args.files[lo])
            /\ hi < Len(args.files) => IsStdin(args.files[hi + 1]) # IsStdin(args.files[hi]))
    /\ [](pc[0] \in {"total", "done"} => hi = Len(args.files) /\ GroupsDone)
    /\ [][<<lo, hi>>' # <<lo, hi>> =>
            /\ lo' = hi + 1
            /\ hi' >= lo'
            /\ GroupsDone]_vars

\* C17 witness: the list -, a, - is at its third group; the first two are
\* merged.
C17_Witness ==
    /\ args.files = <<"-", "a", "-">>
    /\ lo = 3 /\ hi = 3
    /\ pc[0] = "read"
    /\ result[1].st = "ok" /\ result[2].st = "ok"
    /\ counts = OkSum(1, 2) /\ counts.lines > 1

\* files_from failed: main is about to return its error, or has.
ManifestFailed == pc[0] = "from_failed" \/ (pc[0] = "error" /\ result = <<>>)

\* The names a manifest holds: one per NUL and one per piece that ends
\* without one.
Chunks(d) ==
    Cardinality(NulAt(d)) +
    Cardinality({i \in 1..Len(d) : /\ d[i] \notin {"NUL", "EOF"}
                                   /\ (i = Len(d) \/ d[i + 1] = "EOF")})

\* What files_from has to read: the file, or standard input up to the
\* zero-byte read that ended the manifest.
ManifestRead ==
    IF FromStdin THEN SubSeq(stdinData, 1, seg[1].to) ELSE ManifestBytes

\* C19: while the manifest is read and once reading it has failed, nothing
\* is scanned, reported or totalled, and after the failure main only
\* returns the error; when files_from has returned Ok every name of the
\* manifest is in the source list and the manifest is at its end, and only
\* then is a scan begun.
C19_ManifestFirst ==
    /\ []((Expanding \/ ManifestFailed) =>
            /\ out = <<>> /\ err = <<>> /\ StdinScans = {}
            /\ todo = {} /\ \A w \in Workers : pc[w] = "idle"
            /\ result = <<>> /\ counts = CountsDefault)
    /\ [][ManifestFailed =>
            /\ pc[0] = "from_failed" /\ pc'[0] = "error"
            /\ UNCHANGED <<args, out, err, seg, result, counts, th, todo, stdinPos>>]_vars
    /\ []((~Expanding /\ ~ManifestFailed /\ args.files_from # <<>>) =>
            /\ Len(args.files) = IF pc[0] = "default"
                                 THEN Len(cli.files) + Chunks(ManifestRead)
                                 ELSE Max(1, Len(cli.files) + Chunks(ManifestRead))
            /\ FromStdin =>
                  /\ seg[1].src = 0 /\ seg[1].from = 0
                  /\ seg[1].to = Len(stdinData) \/ stdinData[seg[1].to] = "EOF"
                  /\ \A k \in StdinScans : seg[k].from >= seg[1].to)

\* C19 witness: the manifest failed at its second name; main returned the
\* error with the two sources it had and nothing scanned.
C19_Witness ==
    /\ pc[0] = "error" /\ result = <<>>
    /\ cli.files = <<"a">>
    /\ args.files = <<"a", "a">>
    /\ args.files_from = <<"n">>

\* main has returned, with Ok or an error, or the process has panicked.
Final == pc[0] \in {"done", "error", "panicked"}

\* A scan of standard input returned an error.
StdinScanFailed == pc[0] = "error" /\ result # <<>>

\* Source i has one outcome: one report line, or (a named file) one message
\* on standard error; there are as many messages with its path as failed
\* sources of its name.
OneOutcome(i) ==
    /\ Cardinality({k \in ReportLines : out[k].src = i}) + (IF i \in Failed THEN 1 ELSE 0) = 1
    /\ i \in Failed => ~IsStdin(args.files[i])
    /\ Cardinality({k \in 1..Len(err) : err[k].path = args.files[i]}) =
       Cardinality({j \in Failed : args.files[j] = args.files[i]})

\* C18 as claimed: with every thread scheduled in the end the invocation
\* reaches a final state, and in a final state that no failed scan of
\* standard input led to (nor, by C19, a manifest that could not be read)
\* every source of the list has exactly one outcome.
C18_EverySourceOneOutcome ==
    /\ <>Final
    /\ []((Final /\ ~StdinScanFailed /\ ~ManifestFailed) =>
             \A i \in Sources : OneOutcome(i))

\* What holds of C18: a final state is always reached, and when main
\* returns Ok every source has exactly one outcome.
Terminates == <>Final

OutcomesWhenDone == pc[0] = "done" => \A i \in Sources : OneOutcome(i)

====
